---- MODULE Spec2Model ----
(***************************************************************************)
(* A model of src/agent_factory.py: the in-process AgentConfig registry,   *)
(* the catalogue of remote (Foundry) agents, and the two chat paths.       *)
(*                                                                         *)
(* Python values are rendered as follows.                                  *)
(*  - A string is a TLA+ string; a string that the code builds by          *)
(*    concatenation or searches for a substring is a sequence of string    *)
(*    pieces (<<"Error code: ", "500">>).  Non-ASCII letters of the        *)
(*    source's literals are written in ASCII.                              *)
(*  - A missing attribute or mapping key is Absent, Python's None is None. *)
(*  - An optional list is a record [kind, items] (NoneList, ListOf(s)).    *)
(*  - A coroutine is cut at its suspension points (await, async with,      *)
(*    async for, yield): the code between two of them is one step.         *)
(***************************************************************************)
EXTENDS Integers, Sequences, FiniteSets, TLC

VARIABLES
    agents,       \* AgentFactory.agents: the AgentConfig registry, id -> config
    returned,     \* the configs create_agent_config has returned, in call order
    lookup,       \* the value of the last get_agent_config call
    remote,       \* the remote service's agents, in enumeration order
    connections,  \* the remote service's connections, in enumeration order
    calls,        \* the calls of the remote operations, one record per call
    sessions,     \* the credential/client sessions that are open
    nextSid       \* the number of sessions opened so far, plus one

vars == <<agents, returned, lookup, remote, connections, calls, sessions, nextSid>>

----------------------------------------------------------------------------
(* Bounds of the model.                                                    *)

\* the calls of remote operations made in one behaviour
MaxCalls == 2
\* the agents the remote service holds at most
MaxRemote == 2
\* the tools of one remote definition at most
MaxTools == 2
\* the configs created in one behaviour at most
MaxConfigs == 3
\* the chunks of one remote stream at most
MaxChunks == 3
\* the items of a response's output, and the parts of an item's content
MaxItems == 2
MaxParts == 2
\* The longest short display name, and the longest tail after a long prefix.
MaxNameChars == 3

Calls == 1..MaxCalls

----------------------------------------------------------------------------
(* Python values.                                                          *)

Absent == "<absent>"
None == "<None>"

NoneList == [kind |-> "none", items |-> <<>>]
ListOf(s) == [kind |-> "list", items |-> s]

\* Python truthiness of an optional list: None and [] are false.
Truthy(l) == l.kind = "list" /\ Len(l.items) > 0

\* A variant that takes every value for true.
AlwaysTruthy(s) == TRUE

\* Python truthiness of an optional string: a missing value, None and "" are false.
TruthyStr(s) == s \notin {Absent, None, ""}

\* All sequences over S of length lo..hi.
SeqsOf(S, lo, hi) == UNION {[1..n -> S] : n \in lo..hi}

RECURSIVE Concat(_)
\* The concatenation of a sequence of sequences.
Concat(ss) == IF ss = <<>> THEN <<>> ELSE Head(ss) \o Concat(Tail(ss))

----------------------------------------------------------------------------
(* generate_agent_instructions: a document is a sequence of lines, a line  *)
(* a sequence of string pieces.                                            *)

DefaultPersonality == "profesional y amigable"

DefaultCapabilities ==
    << <<"- Responder preguntas de manera clara y concisa">>,
       <<"- Ayudar al usuario con sus consultas">> >>

DefaultRules ==
    << <<"1. Siempre manten un tono profesional y respetuoso">>,
       <<"2. Si no sabes algo, admitelo honestamente">>,
       <<"3. Se conciso pero completo en tus respuestas">>,
       <<"4. Usa emojis cuando sea apropiado para hacer la conversacion mas amena">> >>

capabilities_text(agent_capabilities) ==
    IF Truthy(agent_capabilities)
    THEN [i \in 1..Len(agent_capabilities.items) |->
            <<"- ", agent_capabilities.items[i]>>]
    ELSE DefaultCapabilities

rules_text(agent_rules) ==
    IF Truthy(agent_rules)
    THEN [i \in 1..Len(agent_rules.items) |->
            <<ToString(i), ". ", agent_rules.items[i]>>]
    ELSE DefaultRules

\* A variant that puts the rules before the capabilities.
InstructionsRulesFirst(agent_purpose, agent_personality, agent_capabilities, agent_rules) ==
    << <<"Eres un asistente especializado con el siguiente proposito:">>,
       <<"">>,
       <<"PROPOSITO PRINCIPAL:">>,
       <<agent_purpose>>,
       <<"">>,
       <<"PERSONALIDAD:">>,
       <<agent_personality>>,
       <<"">>,
       <<"REGLAS DE COMPORTAMIENTO:">> >>
    \o rules_text(agent_rules)
    \o << <<"">>, <<"CAPACIDADES:">> >>
    \o capabilities_text(agent_capabilities)
    \o << <<"">>,
          <<"FORMATO DE RESPUESTA:">>,
          <<"- Responde de manera clara y estructurada">>,
          <<"- Usa vinetas o numeracion cuando sea apropiado">>,
          <<"- Incluye ejemplos cuando ayuden a clarificar">> >>

generate_agent_instructions(agent_purpose, agent_personality, agent_capabilities, agent_rules) ==
    << <<"Eres un asistente especializado con el siguiente proposito:">>,
       <<"">>,
       <<"PROPOSITO PRINCIPAL:">>,
       <<agent_purpose>>,
       <<"">>,
       <<"PERSONALIDAD:">>,
       <<agent_personality>>,
       <<"">>,
       <<"CAPACIDADES:">> >>
    \o capabilities_text(agent_capabilities)
    \o << <<"">>, <<"REGLAS DE COMPORTAMIENTO:">> >>
    \o rules_text(agent_rules)
    \o << <<"">>,
          <<"FORMATO DE RESPUESTA:">>,
          <<"- Responde de manera clara y estructurada">>,
          <<"- Usa vinetas o numeracion cuando sea apropiado">>,
          <<"- Incluye ejemplos cuando ayuden a clarificar">> >>

----------------------------------------------------------------------------
(* The AgentConfig registry.                                               *)

\* str(uuid.uuid4())[:8]: eight hexadecimal digits of a random UUID.  The
\* draw is not under the program's control; two values stand for the 2^32.
UuidPrefixes == {"1a2b3c4d", "9f8e7d6c"}

\* datetime.now().isoformat(): the wall clock, which two calls may read at
\* the same instant and which may be set back between two calls.
Timestamps == {"2025-01-01T10:00:00", "2025-01-01T10:00:01"}

\* The authoring requests: name, purpose, personality, capabilities and
\* rules.  A caller may leave the last three out, pass empty lists, or pass
\* as a purpose a text that reads like a section header.
ConfigInputs ==
    {[name |-> "FAQ Bot", purpose |-> "Answer FAQs",
      personality |-> DefaultPersonality,
      capabilities |-> NoneList, rules |-> NoneList],
     [name |-> "Joker", purpose |-> "Tell jokes",
      personality |-> "bromista",
      capabilities |-> ListOf(<<"chistes", "adivinanzas">>),
      rules |-> ListOf(<<"No ofender">>)],
     [name |-> "Eco", purpose |-> "REGLAS DE COMPORTAMIENTO:",
      personality |-> "",
      capabilities |-> ListOf(<<>>),
      rules |-> ListOf(<<"CAPACIDADES:", "">>)]}

NoConfig == [id |-> None, name |-> None, description |-> None,
             instructions |-> <<>>, created_at |-> None]

AgentConfig(id, name, description, instructions, created_at) ==
    [id |-> id, name |-> name, description |-> description,
     instructions |-> instructions, created_at |-> created_at]

\* A variant that gives a blank config for an id the registry does not hold.
ConfigOrBlank(agent_id) ==
    IF agent_id \in DOMAIN agents THEN agents[agent_id]
    ELSE [NoConfig EXCEPT !.id = agent_id]

\* self.agents.get(agent_id)
get_agent_config(agent_id) ==
    IF agent_id \in DOMAIN agents THEN agents[agent_id] ELSE NoConfig

\* A variant that stores the config before its instructions are composed.
StoreBeforeComposed(config) ==
    [i \in (DOMAIN agents) \cup {config.id} |->
        IF i = config.id THEN [config EXCEPT !.instructions = <<>>] ELSE agents[i]]

\* self.agents[agent_id] = config: a dict assignment, which inserts the key
\* or replaces the value it holds.
StoreConfig(config) ==
    [i \in (DOMAIN agents) \cup {config.id} |->
        IF i = config.id THEN config ELSE agents[i]]

create_agent_config(agent_id, now, name, description, purpose, personality, capabilities, rules) ==
    /\ Len(returned) < MaxConfigs
    /\ LET config == AgentConfig(agent_id, name, description,
                        generate_agent_instructions(purpose, personality,
                                                    capabilities, rules),
                        now)
       IN /\ agents' = StoreConfig(config)
          /\ returned' = Append(returned, config)
    /\ UNCHANGED <<lookup, remote, connections, calls, sessions, nextSid>>

GetAgentConfig(agent_id) ==
    /\ lookup' = get_agent_config(agent_id)
    /\ UNCHANGED <<agents, returned, remote, connections, calls, sessions, nextSid>>

CreateAgentConfig ==
    \E agent_id \in UuidPrefixes, now \in Timestamps, input \in ConfigInputs :
        create_agent_config(agent_id, now, input.name, "una descripcion",
                            input.purpose, input.personality,
                            input.capabilities, input.rules)

\* One authoring request, for the behaviours that need a config to chat with.
CreateOneAgentConfig ==
    create_agent_config("1a2b3c4d", "2025-01-01T10:00:00", "FAQ Bot",
                        "una descripcion", "Answer FAQs", DefaultPersonality,
                        NoneList, NoneList)

----------------------------------------------------------------------------
(* The remote service's data, as the SDK hands it to the program.          *)

\* A tool of a definition: a mapping or an object, with or without a type.
ToolTypes == {"mcp", "code_interpreter", Absent}
ToolEntries == [shape : {"dict", "obj"}, type : ToolTypes]

AbsentList == [kind |-> "absent", items |-> <<>>]

\* The 'tools' of a definition: missing, None, or a list of at most MaxTools.
ToolsValues ==
    {AbsentList, NoneList} \cup {ListOf(s) : s \in SeqsOf(ToolEntries, 0, MaxTools)}

Definition(kind, model, tools) == [kind |-> kind, model |-> model, tools |-> tools]

NoDefinition == Definition("none", Absent, AbsentList)

\* A version's definition: None, a mapping or an object.  The mapping that
\* holds neither key is the empty mapping.
Definitions ==
    {NoDefinition}
    \cup {Definition(k, "gpt-4o", t) : k \in {"dict", "obj"}, t \in ToolsValues}
    \cup {Definition(k, m, AbsentList) : k \in {"dict", "obj"}, m \in {Absent, None}}

Version(version, definition, description, created_at) ==
    [kind |-> "obj", version |-> version, definition |-> definition,
     description |-> description, created_at |-> created_at]

NoLatest(kind) ==
    [kind |-> kind, version |-> Absent, definition |-> NoDefinition,
     description |-> Absent, created_at |-> Absent]

\* versions.latest: missing, None or a version.  Every definition comes with
\* the usual version fields; the variations of the other fields come with one
\* definition.
LatestValues ==
    {NoLatest("absent"), NoLatest("none")}
    \cup {Version("3", d, "Bot de FAQ", "2025-06-01 09:30:00") : d \in Definitions}
    \cup {Version(v, Definition("dict", "gpt-4o", ListOf(<<[shape |-> "dict", type |-> "mcp"]>>)),
                  ds, ca) :
            v \in {"3", Absent}, ds \in {"Bot de FAQ", "", None, Absent},
            ca \in {"2025-06-01 09:30:00", None, Absent}}

Versions(kind, latest) == [kind |-> kind, latest |-> latest]

\* agent.versions: missing, None, or an object holding latest.
VersionsValues ==
    {Versions("absent", NoLatest("absent")), Versions("none", NoLatest("absent"))}
    \cup {Versions("obj", l) : l \in LatestValues}

\* A name is a sequence of characters; None is the sequence holding None.
NoName == <<None>>
NameFaqBot == <<"f", "a", "q", "-", "b", "o", "t">>
NamePagos == <<"p", "a", "g", "o", "s">>
NamePlain == <<"p", "l", "a", "i", "n">>
NameCoder == <<"c", "o", "d", "e", "r">>
SinNombre == <<"S", "i", "n", " ", "n", "o", "m", "b", "r", "e">>

\* Python truthiness of an optional name: None and "" are false.
TruthyName(n) == n # <<>> /\ n # NoName

RemoteAgent(id, name, versions) == [id |-> id, name |-> name, versions |-> versions]

\* The agents the remote service may hold, their ids left open.
RemoteAgents ==
    {RemoteAgent(None, NameFaqBot, v) : v \in VersionsValues}
    \cup {RemoteAgent(None, n, Versions("absent", NoLatest("absent"))) : n \in {NoName, <<>>}}

McpTool(shape) == [shape |-> shape, type |-> "mcp"]

\* Three everyday agents: one without versions, one whose definition is a
\* mapping with an mcp tool, one whose definition is an object with another tool.
PlainAgents ==
    {RemoteAgent(None, NamePlain, Versions("none", NoLatest("absent"))),
     RemoteAgent(None, NamePagos, Versions("obj",
        Version("1", Definition("dict", "gpt-4o", ListOf(<<McpTool("dict")>>)),
                "Pagos", "2025-05-01 08:00:00"))),
     RemoteAgent(None, NameCoder, Versions("obj",
        Version("2", Definition("obj", "gpt-4o",
                    ListOf(<<[shape |-> "obj", type |-> "code_interpreter"]>>)),
                None, Absent)))}

\* The ids the remote service gives its agents, by position.
AgentIds == <<"asst_1", "asst_2", "asst_3", "asst_4", "asst_5", "asst_6", "asst_7">>

WithIds(s) == [i \in DOMAIN s |-> [s[i] EXCEPT !.id = AgentIds[i]]]

\* The remote states: at most MaxRemote agents, any one of them arbitrary
\* and the others everyday ones.
Catalogs ==
    {<<>>} \cup
    {c \in {WithIds(before \o <<a>> \o after) :
                a \in RemoteAgents,
                before \in SeqsOf(PlainAgents, 0, MaxRemote - 1),
                after \in SeqsOf(PlainAgents, 0, MaxRemote - 1)} :
        Len(c) <= MaxRemote}

\* The remote states that hold one agent, an arbitrary one.
SingleCatalogs == {WithIds(<<a>>) : a \in RemoteAgents}

\* A remote state of two everyday agents.
PlainCatalog ==
    WithIds(<<RemoteAgent(None, NamePagos, Versions("obj",
                Version("1", Definition("dict", "gpt-4o", ListOf(<<McpTool("dict")>>)),
                        "Pagos", "2025-05-01 08:00:00"))),
              RemoteAgent(None, NamePlain, Versions("none", NoLatest("absent")))>>)

\* A connection of the remote inventory.  Its type, which the code turns to
\* text and searches, is a sequence of string pieces.
Connection(id, name, target, type) ==
    [id |-> id, name |-> name, target |-> target, type |-> type]

\* The remote inventories: a tool server, a second one under the same name,
\* a connection of another kind, and one without a target.
ConnPagos == Connection("conn_1", "pagos-mcp", "https://pagos.example/mcp",
                        <<"ConnectionType.", "REMOTE_TOOL">>)
ConnPagosBis == Connection("conn_2", "pagos-mcp", "https://pagos2.example/mcp",
                           <<"ConnectionType.", "REMOTE_TOOL">>)
ConnSearch == Connection("conn_3", "search", "https://search.example",
                         <<"ConnectionType.", "AZURE_AI_SEARCH">>)
ConnBare == Connection("conn_4", "bare-mcp", None, <<"REMOTE_TOOL", "_V2">>)

Inventories ==
    {<<>>, <<ConnPagos>>, <<ConnPagos, ConnSearch>>, <<ConnPagos, ConnPagosBis>>,
     <<ConnSearch, ConnBare, ConnPagos>>}

----------------------------------------------------------------------------
(* list_foundry_agents: the summary of one remote agent.                   *)

FoundryAgent(id, name, description, model, created_at, has_tools, tool_types) ==
    [id |-> id, name |-> name, description |-> description, model |-> model,
     created_at |-> created_at, has_tools |-> has_tools, tool_types |-> tool_types]

\* Python's str() of an optional string.
Str(x) == IF x = None THEN "None" ELSE x

\* x or "": the value when it is truthy, else the empty string.
OrEmpty(x) == IF TruthyStr(x) THEN x ELSE ""

\* A variant that reads the type of a mapping only.
TypeOfMapping(t) ==
    IF t.shape = "dict" /\ t.type # Absent THEN t.type ELSE "unknown"

\* t.get('type', 'unknown') and getattr(t, 'type', 'unknown').
ToolType(t) == IF t.type = Absent THEN "unknown" ELSE t.type

\* Python truthiness of a definition: None and the empty mapping are false.
TruthyDefinition(d) ==
    /\ d.kind # "none"
    /\ d.kind = "dict" => (d.model # Absent \/ d.tools.kind # "absent")

\* definition.get('tools', []) for a mapping, getattr(definition, 'tools', [])
\* or [] for an object.
ListedTools(d) ==
    IF d.kind = "dict"
    THEN (IF d.tools.kind = "absent" THEN ListOf(<<>>) ELSE d.tools)
    ELSE (IF Truthy(d.tools) THEN d.tools ELSE ListOf(<<>>))

\* tool_types after the loop over tools.
ListedToolTypes(tools) ==
    IF Truthy(tools)
    THEN [i \in 1..Len(tools.items) |-> ToolType(tools.items[i])]
    ELSE <<>>

\* A variant that hands the list over as it is, empty or not.
ToolTypesAsCollected(tool_types) == ListOf(tool_types)

\* tool_types if tool_types else None
ToolTypesOrNone(tool_types) ==
    IF tool_types # <<>> THEN ListOf(tool_types) ELSE NoneList

\* agent.versions.latest when versions is there and truthy and holds latest,
\* and latest is truthy.
LatestOf(agent) ==
    IF agent.versions.kind = "obj" /\ agent.versions.latest.kind = "obj"
    THEN agent.versions.latest
    ELSE NoLatest("none")

Summary(agent) ==
    LET latest == LatestOf(agent)
        definition == latest.definition
        inDef == latest.kind = "obj" /\ TruthyDefinition(definition)
        tools == IF inDef THEN ListedTools(definition) ELSE ListOf(<<>>)
        model == IF inDef THEN OrEmpty(definition.model) ELSE ""
        has_tools == Truthy(tools)
        tool_types == ListedToolTypes(tools)
        description == IF latest.kind = "obj" THEN OrEmpty(latest.description) ELSE ""
        created_at == IF latest.kind = "obj" /\ latest.created_at # Absent
                      THEN Str(latest.created_at) ELSE ""
    IN FoundryAgent(agent.id,
                    IF TruthyName(agent.name) THEN agent.name ELSE SinNombre,
                    description, model, created_at, has_tools,
                    ToolTypesOrNone(tool_types))

----------------------------------------------------------------------------
(* _sanitize_agent_name.                                                   *)

Lower == {"a", "b", "c", "d", "e", "f", "g", "h", "i", "j", "k", "l", "m",
          "n", "o", "p", "q", "r", "s", "t", "u", "v", "w", "x", "y", "z"}
Upper == {"A", "B", "C", "D", "E", "F", "G", "H", "I", "J", "K", "L", "M",
          "N", "O", "P", "Q", "R", "S", "T", "U", "V", "W", "X", "Y", "Z"}
Digits == {"0", "1", "2", "3", "4", "5", "6", "7", "8", "9"}
Alnum == Lower \cup Upper \cup Digits

\* the 63 of sanitized[:63]
MaxNameLen == 63

DefaultName == <<"a", "g", "e", "n", "t">>

\* re.sub(r'[^a-zA-Z0-9-]', '-', name)
ReplaceInvalid(name) ==
    [i \in 1..Len(name) |-> IF name[i] \in Alnum \cup {"-"} THEN name[i] ELSE "-"]

RECURSIVE CollapseHyphens(_)
\* re.sub(r'-+', '-', name)
CollapseHyphens(name) ==
    IF Len(name) < 2 THEN name
    ELSE IF name[1] = "-" /\ name[2] = "-" THEN CollapseHyphens(Tail(name))
    ELSE <<name[1]>> \o CollapseHyphens(Tail(name))

RECURSIVE LStrip(_)
\* name.lstrip('-')
LStrip(name) ==
    IF name # <<>> /\ name[1] = "-" THEN LStrip(Tail(name)) ELSE name

\* A variant that leaves trailing hyphens where they are.
NotStripped(name) == name

RECURSIVE RStrip(_)
\* name.rstrip('-')
RStrip(name) ==
    IF name # <<>> /\ name[Len(name)] = "-"
    THEN RStrip(SubSeq(name, 1, Len(name) - 1)) ELSE name

\* A variant that keeps the whole name.
KeptWhole(name, n) == name

\* name[:n]
Truncate(name, n) == IF Len(name) > n THEN SubSeq(name, 1, n) ELSE name

\* A variant without the rstrip('-') that follows the truncation.
SanitizedUpToTruncation(name) ==
    LET sanitized ==
            Truncate(RStrip(LStrip(CollapseHyphens(ReplaceInvalid(name)))),
                     MaxNameLen)
    IN IF sanitized = <<>> THEN DefaultName ELSE sanitized

\* A variant without the fallback for an empty result.
SanitizedOrEmpty(name) ==
    RStrip(Truncate(RStrip(LStrip(CollapseHyphens(ReplaceInvalid(name)))),
                    MaxNameLen))

sanitize_agent_name(name) ==
    LET sanitized ==
            RStrip(Truncate(RStrip(LStrip(CollapseHyphens(ReplaceInvalid(name)))),
                            MaxNameLen))
    IN IF sanitized = <<>> THEN DefaultName ELSE sanitized

----------------------------------------------------------------------------
(* The calls of the remote operations.  A call is a coroutine or an async  *)
(* generator: pc is the suspension point it stands at, "done" after it     *)
(* returned or its sequence ended, "raised" after an exception left it,    *)
(* "cancelled" after the consumer cancelled or closed it.                  *)

IdleCall ==
    [op |-> "none", pc |-> "idle", sid |-> 0,
     agent_id |-> None, agent_name |-> NoName, agent_version |-> None,
     has_mcp_tools |-> FALSE,
     requests |-> <<>>,       \* the completion requests issued
     response |-> <<>>,       \* the response createResponse returned, if any
     events |-> <<>>,         \* what the traversal of the response does, in order
     received |-> <<>>,       \* the chunks the remote stream delivered
     out |-> <<>>,            \* the fragments emitted
     i |-> 0,                 \* the items consumed from a remote enumeration
     result |-> <<>>,         \* the value returned
     error |-> <<>>,          \* the text of the exception the remote call raised
     cancelled_at |-> "none", \* where the consumer cancelled or closed the call
     thread_id |-> None,      \* the thread identifier a chat was given
     thread |-> None,         \* the thread a local chat passes to run_stream
     name |-> <<>>,           \* the display name a creation was given
     sanitized_name |-> <<>>, instructions |-> <<>>, model |-> None,
     tool_names |-> NoneList, connections_map |-> <<>>,
     submitted |-> <<>>]      \* the create request sent, if any

Ended == {"done", "raised", "cancelled"}

\* A call that ended: its locals are gone; what it was given, what it emitted
\* and what was exchanged with the remote service stay on record, and the
\* value it built is returned only by a return.
End(rec, pc) ==
    [IdleCall EXCEPT
        !.op = rec.op, !.pc = pc, !.sid = rec.sid, !.agent_id = rec.agent_id,
        !.requests = rec.requests, !.response = rec.response,
        !.received = rec.received, !.out = rec.out,
        !.result = IF pc = "done" THEN rec.result ELSE <<>>,
        !.error = rec.error, !.cancelled_at = rec.cancelled_at,
        !.thread_id = rec.thread_id, !.thread = rec.thread,
        !.name = rec.name, !.tool_names = rec.tool_names,
        !.submitted = rec.submitted]

\* The calls are numbered in the order they are made.
MayStart(c) ==
    /\ calls[c].pc = "idle"
    /\ c > 1 => calls[c - 1].pc # "idle"

\* Entering `async with AzureCliCredential() ... async with client`: a new
\* credential and a new client, owned by the call.
OpenedSessions(c) == sessions \cup {[sid |-> nextSid, owner |-> c]}

\* A variant that releases on a return and on a close, not on an exception.
ReleasedUnlessRaised(c, how) ==
    IF how = "raise" THEN sessions ELSE {s \in sessions : s.sid # calls[c].sid}

\* Leaving the `async with` blocks, by a return, an exception or the close
\* of the generator ("return", "raise", "close"): __aexit__ runs on each.
ReleasedSessions(c, how) == {s \in sessions : s.sid # calls[c].sid}

\* The call's record after the step.
Step(c, rec) == calls' = [calls EXCEPT ![c] = rec]

Open(c) ==
    /\ sessions' = OpenedSessions(c)
    /\ nextSid' = nextSid + 1

Release(c, how) ==
    /\ sessions' = ReleasedSessions(c, how)
    /\ UNCHANGED nextSid

NoSessionChange == UNCHANGED <<sessions, nextSid>>

\* The call returns, or its sequence ends.
Return(c, rec) ==
    /\ Step(c, End(rec, "done"))
    /\ Release(c, "return")

\* An exception leaves the call.
Raise(c, error) ==
    /\ Step(c, End([calls[c] EXCEPT !.error = error], "raised"))
    /\ Release(c, "raise")

\* Does the text hold the marker?  (`marker in text`)
Contains(text, marker) == \E k \in 1..Len(text) : text[k] = marker

\* The failures of a remote call, as the text of the exception.
Error500 == <<"Error code: ", "500", " - Internal Server Error">>
Error429 == <<"Error code: 429 - Too Many Requests">>
ErrorTimeout == <<"Request timed out after 1", "500", " ms">>
ErrorReset == <<"Connection reset by peer">>
Errors == {Error500, Error429, ErrorTimeout, ErrorReset}

----------------------------------------------------------------------------
(* list_foundry_agents and list_foundry_tools.                             *)

StartListAgents(c) ==
    /\ MayStart(c)
    /\ Step(c, [calls[c] EXCEPT !.op = "list_agents", !.pc = "agents.list",
                               !.sid = nextSid])
    /\ Open(c)
    /\ UNCHANGED <<agents, returned, lookup, remote, connections>>

\* A variant that keeps a cache: once a listing has returned, a later one
\* returns that result.
ListAgentsCached(c) ==
    /\ calls[c].pc = "agents.list"
    /\ IF \E d \in Calls : calls[d].op = "list_agents" /\ calls[d].pc = "done"
       THEN LET d == CHOOSE d \in Calls :
                        calls[d].op = "list_agents" /\ calls[d].pc = "done"
            IN Return(c, [calls[c] EXCEPT !.result = calls[d].result])
       ELSE IF calls[c].i < Len(remote)
       THEN /\ Step(c, [calls[c] EXCEPT
                    !.i = @ + 1,
                    !.result = Append(@, Summary(remote[calls[c].i + 1]))])
            /\ NoSessionChange
       ELSE Return(c, calls[c])
    /\ UNCHANGED <<agents, returned, lookup, remote, connections>>

\* `async for agent in client.agents.list()`: the next agent, or the end.
ListAgentsNext(c) ==
    /\ calls[c].pc = "agents.list"
    /\ IF calls[c].i < Len(remote)
       THEN /\ Step(c, [calls[c] EXCEPT
                    !.i = @ + 1,
                    !.result = Append(@, Summary(remote[calls[c].i + 1]))])
            /\ NoSessionChange
       ELSE Return(c, calls[c])
    /\ UNCHANGED <<agents, returned, lookup, remote, connections>>

FoundryTool(id, name, target, tool_type) ==
    [id |-> id, name |-> name, target |-> target, tool_type |-> tool_type]

StartListTools(c) ==
    /\ MayStart(c)
    /\ Step(c, [calls[c] EXCEPT !.op = "list_tools", !.pc = "connections.list",
                               !.sid = nextSid])
    /\ Open(c)
    /\ UNCHANGED <<agents, returned, lookup, remote, connections>>

\* A variant that lists a name once.
ListedOncePerName(tools, conn) ==
    IF Contains(conn.type, "REMOTE_TOOL")
       /\ \A k \in 1..Len(tools) : tools[k].name # conn.name
    THEN Append(tools, FoundryTool(conn.id, conn.name, OrEmpty(conn.target), "mcp"))
    ELSE tools

\* One connection of list_foundry_tools' loop: the tools after it.
ListedConnection(tools, conn) ==
    IF Contains(conn.type, "REMOTE_TOOL")
    THEN Append(tools, FoundryTool(conn.id, conn.name, OrEmpty(conn.target), "mcp"))
    ELSE tools

ListToolsNext(c) ==
    /\ calls[c].pc = "connections.list"
    /\ IF calls[c].i < Len(connections)
       THEN /\ Step(c, [calls[c] EXCEPT
                    !.i = @ + 1,
                    !.result = ListedConnection(@, connections[calls[c].i + 1])])
            /\ NoSessionChange
       ELSE Return(c, calls[c])
    /\ UNCHANGED <<agents, returned, lookup, remote, connections>>

----------------------------------------------------------------------------
(* create_foundry_agent.                                                   *)

MCPTool(server_label, server_url, project_connection_id) ==
    [type |-> "mcp", server_label |-> server_label, server_url |-> server_url,
     project_connection_id |-> project_connection_id,
     allowed_tools |-> <<>>, require_approval |-> "never"]

\* A variant that, for a name the map holds already, keeps the id and takes
\* the new url.
MappedKeepingId(connections_map, conn) ==
    [n \in (DOMAIN connections_map) \cup {conn.name} |->
        IF n = conn.name
        THEN [id |-> IF n \in DOMAIN connections_map
                     THEN connections_map[n].id ELSE conn.id,
              url |-> OrEmpty(conn.target)]
        ELSE connections_map[n]]

\* connections_map[conn.name] = {'id': conn.id, 'url': target_url}
MappedConnection(connections_map, conn) ==
    [n \in (DOMAIN connections_map) \cup {conn.name} |->
        IF n = conn.name THEN [id |-> conn.id, url |-> OrEmpty(conn.target)]
        ELSE connections_map[n]]

RECURSIVE ResolvedTools(_, _)
\* A variant that stops at the first name the map does not hold.
ResolvedUntilUnknown(tool_names, connections_map) ==
    IF tool_names = <<>> \/ Head(tool_names) \notin DOMAIN connections_map
    THEN <<>>
    ELSE <<MCPTool(Head(tool_names), connections_map[Head(tool_names)].url,
                   connections_map[Head(tool_names)].id)>>
         \o ResolvedTools(Tail(tool_names), connections_map)

\* The loop over tool_names: a tool for each name the map holds.
ResolvedTools(tool_names, connections_map) ==
    IF tool_names = <<>> THEN <<>>
    ELSE LET tool_name == Head(tool_names)
             rest == ResolvedTools(Tail(tool_names), connections_map)
         IN IF tool_name \in DOMAIN connections_map
            THEN <<MCPTool(tool_name, connections_map[tool_name].url,
                           connections_map[tool_name].id)>> \o rest
            ELSE rest

\* A variant that passes the list on as it is, empty or not.
DefinitionWithList(model, instructions, tools) ==
    [model |-> model, instructions |-> instructions, tools |-> ListOf(tools)]

\* PromptAgentDefinition(model, instructions, tools=tools if tools else None)
PromptAgentDefinition(model, instructions, tools) ==
    [model |-> model, instructions |-> instructions,
     tools |-> IF tools # <<>> THEN ListOf(tools) ELSE NoneList]

\* client.agents.create(name=sanitized_name, definition=definition)
CreateRequest(sanitized_name, model, instructions, tools) ==
    [name |-> sanitized_name,
     definition |-> PromptAgentDefinition(model, instructions, tools)]

\* The call up to its first wait: on the connections when tool names are
\* given, else on agents.create.
StartCreate(c, names, instructions, model, tool_name_lists) ==
    /\ MayStart(c)
    /\ \E name \in names, tool_names \in tool_name_lists :
        Step(c, [calls[c] EXCEPT
            !.op = "create",
            !.pc = IF Truthy(tool_names) THEN "create.connections" ELSE "agents.create",
            !.sid = nextSid,
            !.name = name,
            !.sanitized_name = sanitize_agent_name(name),
            !.instructions = instructions,
            !.model = model,
            !.tool_names = tool_names,
            !.submitted = IF Truthy(tool_names) THEN <<>>
                          ELSE <<CreateRequest(sanitize_agent_name(name), model,
                                               instructions, <<>>)>>])
    /\ Open(c)
    /\ UNCHANGED <<agents, returned, lookup, remote, connections>>

\* `async for conn in client.connections.list()`, then the loop over tool_names.
CreateConnectionsNext(c) ==
    /\ calls[c].pc = "create.connections"
    /\ IF calls[c].i < Len(connections)
       THEN Step(c, [calls[c] EXCEPT
                !.i = @ + 1,
                !.connections_map = MappedConnection(@, connections[calls[c].i + 1])])
       ELSE Step(c, [calls[c] EXCEPT
                !.pc = "agents.create",
                !.submitted = <<CreateRequest(
                                    calls[c].sanitized_name, calls[c].model,
                                    calls[c].instructions,
                                    ResolvedTools(calls[c].tool_names.items,
                                                  calls[c].connections_map))>>])
    /\ NoSessionChange
    /\ UNCHANGED <<agents, returned, lookup, remote, connections>>

\* The agent the remote service stores for a create request, as a later
\* listing shows it: its definition in the shape the service chooses.
StoredAgent(id, request, shape) ==
    RemoteAgent(id, request.name, Versions("obj",
        Version("1",
                Definition(shape, request.definition.model,
                    IF request.definition.tools.kind = "none" THEN AbsentList
                    ELSE ListOf([k \in 1..Len(request.definition.tools.items) |->
                                    [shape |-> shape, type |-> "mcp"]])),
                "", "2025-07-01 12:00:00")))

\* A variant that takes the name of the answer as it is.
SummaryOfAnswer(agent_id, agent_name, sanitized_name, model) ==
    FoundryAgent(agent_id, agent_name, "", model, "", FALSE, NoneList)

\* What create_foundry_agent returns for the agent the service created.
CreatedSummary(agent_id, agent_name, sanitized_name, model) ==
    FoundryAgent(agent_id,
                 IF TruthyName(agent_name) THEN agent_name ELSE sanitized_name,
                 "", model, "", FALSE, NoneList)

\* `await client.agents.create(...)` returns: the service has stored the
\* agent and answers with its id and a name: the submitted one ("same"), a
\* name of its own choosing that it stored instead ("other"), or no name
\* ("none").
CreateReturns(c, shapes, answers) ==
    /\ calls[c].pc = "agents.create"
    /\ Len(remote) < Len(AgentIds)
    /\ \E shape \in shapes, answer \in answers :
        LET id == AgentIds[Len(remote) + 1]
            request == calls[c].submitted[1]
            stored == IF answer = "other" THEN [request EXCEPT !.name = NameFaqBot]
                      ELSE request
            name == IF answer = "none" THEN NoName ELSE stored.name
        IN /\ remote' = Append(remote, StoredAgent(id, stored, shape))
           /\ Return(c, [calls[c] EXCEPT
                !.result = <<CreatedSummary(id, name, calls[c].sanitized_name,
                                            calls[c].model)>>])
    /\ UNCHANGED <<agents, returned, lookup, connections>>

----------------------------------------------------------------------------
(* chat_with_foundry_agent.                                                *)

\* A fragment is a sequence of string pieces.
KnownLimitation ==
    <<"Error del servidor (500): Este agente tiene MCP tools configuradas. ",
      "Actualmente hay un problema conocido con la API de Azure AI Foundry al ",
      "chatear con agentes que tienen MCP tools a traves del SDK. Por favor, ",
      "prueba con este agente directamente en el portal de Azure AI Foundry.">>

RawErrorPrefix == "Error al chatear con el agente: "

\* The except branch of the chat: the fragment for an error text.
ErrorFragment(error_msg, has_mcp_tools) ==
    IF Contains(error_msg, "500") /\ has_mcp_tools
    THEN KnownLimitation
    ELSE <<RawErrorPrefix>> \o error_msg

\* str(agent.versions.latest.version) when versions, latest and version are
\* there, else "1".
AgentVersion(agent) ==
    IF /\ agent.versions.kind = "obj"
       /\ agent.versions.latest.kind = "obj"
       /\ agent.versions.latest.version # Absent
    THEN Str(agent.versions.latest.version)
    ELSE "1"

\* any(t.get('type') == 'mcp' for t in tools if isinstance(t, dict)), for a
\* definition that is a non-empty mapping with truthy tools.
HasMcpTools(agent) ==
    LET latest == LatestOf(agent)
        definition == latest.definition
    IN /\ latest.kind = "obj"
       /\ TruthyDefinition(definition)
       /\ definition.kind = "dict"
       /\ Truthy(definition.tools)
       /\ \E k \in 1..Len(definition.tools.items) :
            /\ definition.tools.items[k].shape = "dict"
            /\ definition.tools.items[k].type = "mcp"

\* The response of responses.create: output is missing, None or a list of
\* items; an item has a type and content that is missing, None or a list of
\* parts; a part has a text or not.
Part(hasText, text) == [hasText |-> hasText, text |-> text]
Item(type, content) == [type |-> type, content |-> content]
Response(output) == [output |-> output]

TypeErrorText == <<"'NoneType' object is not iterable">>

Yield(fragment) == [ev |-> "yield", fragment |-> fragment]
Throw(text) == [ev |-> "raise", fragment |-> text]

\* The yields of `for content_part in content: if hasattr(content_part, 'text')`.
PartEvents(parts) ==
    LET texts == SelectSeq(parts, LAMBDA part : part.hasText)
    IN [k \in 1..Len(texts) |-> Yield(texts[k].text)]

\* What the body of the loop over response.output does for one item.
ItemEvents(item) ==
    IF Truthy(item.content)
    THEN PartEvents(item.content.items)
    ELSE IF item.type = "message" /\ item.content.kind # "absent"
         THEN (IF item.content.kind = "none"
               THEN <<Throw(TypeErrorText)>>
               ELSE PartEvents(item.content.items))
         ELSE <<>>

RECURSIVE ItemsEvents(_)
\* The loop over response.output, which an exception ends.
ItemsEvents(items) ==
    IF items = <<>> THEN <<>>
    ELSE LET first == ItemEvents(Head(items))
         IN IF first # <<>> /\ first[Len(first)].ev = "raise"
            THEN first
            ELSE first \o ItemsEvents(Tail(items))

ResponseEvents(response) ==
    IF Truthy(response.output) THEN ItemsEvents(response.output.items) ELSE <<>>

\* The agent of that id in the remote state, as a sequence of none or one.
RemoteLookup(agent_id) == SelectSeq(remote, LAMBDA a : a.id = agent_id)

StartChatFoundry(c, agent_ids, thread_ids) ==
    /\ MayStart(c)
    /\ \E agent_id \in agent_ids, thread_id \in thread_ids :
        Step(c, [calls[c] EXCEPT !.op = "chat_foundry", !.pc = "agents.get",
                                !.sid = nextSid, !.agent_id = agent_id,
                                !.thread_id = thread_id])
    /\ Open(c)
    /\ UNCHANGED <<agents, returned, lookup, remote, connections>>

\* A variant that passes a model along with the reference.
ReferenceWithModel(name, version) ==
    [input_role |-> "user", agent_type |-> "agent_reference",
     agent_name |-> name, agent_version |-> version, model |-> "gpt-4o"]

\* The request of responses.create: the user's input, and in extra_body the
\* reference to the agent; no model is passed.
AgentReference(name, version) ==
    [input_role |-> "user", agent_type |-> "agent_reference",
     agent_name |-> name, agent_version |-> version, model |-> Absent]

\* `await client.agents.get(agent_id)` returns; the code up to
\* `await openai_client.responses.create(...)`.
ChatGetReturns(c) ==
    /\ calls[c].pc = "agents.get"
    /\ RemoteLookup(calls[c].agent_id) # <<>>
    /\ LET agent == RemoteLookup(calls[c].agent_id)[1]
       IN Step(c, [calls[c] EXCEPT
                !.pc = "responses.create",
                !.agent_name = agent.name,
                !.agent_version = AgentVersion(agent),
                !.has_mcp_tools = HasMcpTools(agent),
                !.requests = Append(@, AgentReference(agent.name, AgentVersion(agent)))])
    /\ NoSessionChange
    /\ UNCHANGED <<agents, returned, lookup, remote, connections>>

\* The generator runs from event k on to its next yield or to its end.
Advance(c, rec, events, k) ==
    IF k > Len(events)
    THEN Return(c, rec)
    ELSE /\ IF events[k].ev = "yield"
            THEN Step(c, [rec EXCEPT
                    !.pc = "yield", !.events = events, !.i = k,
                    !.out = Append(@, events[k].fragment)])
            ELSE Step(c, [rec EXCEPT
                    !.pc = "yield.error", !.events = events, !.i = k,
                    !.out = Append(@, ErrorFragment(events[k].fragment,
                                                    rec.has_mcp_tools))])
         /\ NoSessionChange

\* responses.create returns a response: the traversal starts.
ChatRespondReturns(c, responses) ==
    /\ calls[c].pc = "responses.create"
    /\ \E response \in responses :
        Advance(c, [calls[c] EXCEPT !.response = <<response>>],
                ResponseEvents(response), 1)
    /\ UNCHANGED <<agents, returned, lookup, remote, connections>>

\* responses.create raises: the except branch yields one fragment.
ChatRespondFails(c, errors) ==
    /\ calls[c].pc = "responses.create"
    /\ \E error \in errors :
        Advance(c, [calls[c] EXCEPT !.error = error], <<Throw(error)>>, 1)
    /\ UNCHANGED <<agents, returned, lookup, remote, connections>>

\* The consumer asks for the next fragment.
ChatFoundryResume(c) ==
    /\ calls[c].op = "chat_foundry"
    /\ \/ /\ calls[c].pc = "yield"
          /\ Advance(c, calls[c], calls[c].events, calls[c].i + 1)
       \/ /\ calls[c].pc = "yield.error"
          /\ Return(c, calls[c])
    /\ UNCHANGED <<agents, returned, lookup, remote, connections>>

----------------------------------------------------------------------------
(* chat_with_agent.                                                        *)

\* The thread identifiers a caller may pass: none, or a conversation's.
ThreadIds == {None, "thread_1"}

\* A variant that resumes the thread the caller names.
ThreadResumed(thread_id) == IF thread_id = None THEN "<new thread>" ELSE thread_id

\* thread = agent.get_new_thread(): a thread of its own for the call; the
\* thread_id parameter is not read.
ThreadFor(thread_id) == "<new thread>"

NotFoundFragment(agent_id) == <<"Error: Agente '", agent_id, "' no encontrado.">>

\* The lookup and, for a known agent, the entry of the `async with` block
\* up to the first wait on agent.run_stream.
StartChatLocal(c, agent_ids, thread_ids) ==
    /\ MayStart(c)
    /\ \E agent_id \in agent_ids, thread_id \in thread_ids :
        IF get_agent_config(agent_id) = NoConfig
        THEN /\ Step(c, [calls[c] EXCEPT
                    !.op = "chat_local", !.pc = "yield.notfound",
                    !.agent_id = agent_id, !.thread_id = thread_id,
                    !.out = Append(@, NotFoundFragment(agent_id))])
             /\ NoSessionChange
        ELSE /\ Step(c, [calls[c] EXCEPT
                    !.op = "chat_local", !.pc = "run_stream",
                    !.sid = nextSid, !.agent_id = agent_id,
                    !.thread_id = thread_id, !.thread = ThreadFor(thread_id),
                    !.instructions = get_agent_config(agent_id).instructions])
             /\ Open(c)
    /\ UNCHANGED <<agents, returned, lookup, remote, connections>>

\* The remote stream delivers a chunk: `if chunk.text: yield chunk.text`.
ChatLocalChunk(c, texts) ==
    /\ calls[c].pc = "run_stream"
    /\ Len(calls[c].received) < MaxChunks
    /\ \E text \in texts :
        Step(c, [calls[c] EXCEPT
            !.received = Append(@, text),
            !.pc = IF TruthyStr(text) THEN "yield" ELSE "run_stream",
            !.out = IF TruthyStr(text) THEN Append(@, <<text>>) ELSE @])
    /\ NoSessionChange
    /\ UNCHANGED <<agents, returned, lookup, remote, connections>>

\* The remote stream ends.
ChatLocalEnd(c) ==
    /\ calls[c].pc = "run_stream"
    /\ Return(c, calls[c])
    /\ UNCHANGED <<agents, returned, lookup, remote, connections>>

\* The consumer asks for the next fragment.
ChatLocalResume(c) ==
    /\ calls[c].op = "chat_local"
    /\ \/ /\ calls[c].pc = "yield"
          /\ Step(c, [calls[c] EXCEPT !.pc = "run_stream"])
          /\ NoSessionChange
       \/ /\ calls[c].pc = "yield.notfound"
          /\ Return(c, calls[c])
    /\ UNCHANGED <<agents, returned, lookup, remote, connections>>

----------------------------------------------------------------------------
(* Failures and cancellation.                                              *)

\* The waits on the remote service that no try block encloses.
BareAwaits == {"agents.list", "connections.list", "create.connections",
               "agents.create", "agents.get", "run_stream"}

\* The points a generator is suspended at after a fragment.
Yields == {"yield", "yield.error", "yield.notfound"}

\* The remote call the coroutine waits on raises: no handler encloses it, the
\* `async with` blocks are left and the exception leaves the call.
RemoteFailure(c, errors) ==
    /\ calls[c].pc \in BareAwaits
    /\ \E error \in errors : Raise(c, error)
    /\ UNCHANGED <<agents, returned, lookup, remote, connections>>

\* A variant whose handler is `except BaseException`: it catches everything.
CaughtByExceptBaseException(exception) == TRUE

\* Does `except Exception` catch it?  CancelledError and GeneratorExit derive
\* from BaseException only.
CaughtByExceptException(exception) ==
    exception \notin {"CancelledError", "GeneratorExit"}

\* What the cancellation of a suspended call leaves: the call has ended and
\* emitted nothing more, unless the try block it stands in caught it.
Cancelled(rec, exception) ==
    IF /\ rec.op = "chat_foundry"
       /\ rec.pc \in {"responses.create", "yield"}
       /\ CaughtByExceptException(exception)
    THEN [rec EXCEPT !.pc = "yield.error",
                     !.out = Append(@, ErrorFragment(<<exception>>, rec.has_mcp_tools))]
    ELSE End(rec, "cancelled")

\* The consumer cancels the task at a wait (CancelledError is raised there)
\* or closes the generator at a yield (GeneratorExit is raised there).
Cancel(c) ==
    /\ calls[c].pc \in BareAwaits \cup {"responses.create"} \cup Yields
    /\ LET exception == IF calls[c].pc \in Yields THEN "GeneratorExit"
                        ELSE "CancelledError"
           rec == Cancelled([calls[c] EXCEPT !.cancelled_at = calls[c].pc], exception)
       IN /\ Step(c, rec)
          /\ IF rec.pc = "cancelled" THEN Release(c, "close") ELSE NoSessionChange
    /\ UNCHANGED <<agents, returned, lookup, remote, connections>>

----------------------------------------------------------------------------
(* The specifications.  Each starts from a factory just constructed, whose *)
(* registry is empty, and a state of the remote service.                   *)

InitWith(catalogs, inventories) ==
    /\ agents = [id \in {} |-> NoConfig]
    /\ returned = <<>>
    /\ lookup = NoConfig
    /\ remote \in catalogs
    /\ connections \in inventories
    /\ calls = [c \in Calls |-> IdleCall]
    /\ sessions = {}
    /\ nextSid = 1

\* The registry alone.
Init == InitWith({<<>>}, {<<>>})

Next ==
    \/ CreateAgentConfig
    \/ \E agent_id \in UuidPrefixes : GetAgentConfig(agent_id)

Spec == Init /\ [][Next]_vars

\* The display names createAgent is given.
DisplayNames ==
    {<<"F", "A", "Q", " ", "B", "o", "t", "!", "!">>, <<"!", "!", "!">>}

ToolNameLists ==
    {NoneList, ListOf(<<>>), ListOf(<<"pagos-mcp", "unknown">>), ListOf(<<"search">>)}

\* One listing or one creation against any remote state.
InitCatalog == InitWith(Catalogs, {<<ConnPagos, ConnSearch>>})

NextCatalog ==
    \/ StartListAgents(1)
    \/ ListAgentsNext(1)
    \/ StartCreate(1, DisplayNames, <<<<"Eres un asistente">>>>, "gpt-4o", ToolNameLists)
    \/ CreateConnectionsNext(1)
    \/ CreateReturns(1, {"dict", "obj"}, {"same", "other", "none"})
    \/ RemoteFailure(1, {Error500})

SpecCatalog == InitCatalog /\ [][NextCatalog]_vars

\* The remote state changes while the factory lives, by someone else's hand:
\* an agent is added, or an agent gets a new latest version.
RemoteChanges(added, versions) ==
    /\ \/ /\ Len(remote) < MaxRemote
          /\ \E agent \in added : remote' = WithIds(Append(remote, agent))
       \/ \E k \in 1..Len(remote), v \in versions :
            /\ remote[k].versions # v
            /\ remote' = [remote EXCEPT ![k].versions = v]
    /\ UNCHANGED <<agents, returned, lookup, connections, calls, sessions, nextSid>>

\* Listings, one after or beside another, of a remote state that changes.
InitListing == InitWith({<<>>, PlainCatalog}, {<<>>})

NextListing ==
    \/ \E c \in Calls : StartListAgents(c) \/ ListAgentsNext(c)
    \/ RemoteChanges(PlainAgents,
                     {Versions("obj", Version("2",
                        Definition("obj", "gpt-4o", ListOf(<<McpTool("obj")>>)),
                        "Pagos v2", "2025-08-01 10:00:00"))})

SpecListing == InitListing /\ [][NextListing]_vars

\* The tool names a creation may ask for: none, or up to MaxTools names of
\* connections and of no connection, in any order, repeated or not.
RequestedToolNames ==
    {NoneList} \cup
    {ListOf(s) : s \in SeqsOf({"pagos-mcp", "search", "bare-mcp", "unknown"}, 0, MaxTools)}

\* One creation, or one listing of the tools, against any inventory.
InitCreate == InitWith({<<>>}, Inventories)

NextCreate ==
    \/ StartListTools(1)
    \/ ListToolsNext(1)
    \/ StartCreate(1, {NameFaqBot}, <<<<"Eres un asistente">>>>, "gpt-4o", RequestedToolNames)
    \/ CreateConnectionsNext(1)
    \/ CreateReturns(1, {"dict", "obj"}, {"same", "none"})
    \/ RemoteFailure(1, {Error500})

SpecCreate == InitCreate /\ [][NextCreate]_vars

\* The display names the sanitizer is tried on: every short name over a few
\* characters (letters, a digit, a hyphen, an invalid character), and each of
\* them after a prefix about as long as the limit, of one valid or one
\* invalid character.
NameChars == {"a", "Z", "7", "-", "!"}

InputNames ==
    LET short == SeqsOf(NameChars, 0, MaxNameChars)
    IN short \cup
       {[i \in 1..k |-> ch] \o tail :
            ch \in {"a", "!"}, k \in (MaxNameLen - 2)..MaxNameLen, tail \in short}

\* One creation without tools, for any display name.
InitSanitize == InitWith({<<>>}, {<<ConnPagos>>})

NextSanitize ==
    \/ StartCreate(1, InputNames, <<<<"Eres un asistente">>>>, "gpt-4o", {NoneList})
    \/ CreateReturns(1, {"obj"}, {"same", "none"})

SpecSanitize == InitSanitize /\ [][NextSanitize]_vars

\* A few responses: two text parts in one item, text in two items with a
\* tool call between, no output, and a message without content.
TextPart(text) == Part(TRUE, <<text>>)
HolaMundo ==
    Response(ListOf(<<Item("message", ListOf(<<TextPart("Hola"), TextPart(" mundo")>>))>>))
SomeResponses ==
    {HolaMundo,
     Response(ListOf(<<Item("message", ListOf(<<TextPart("Uno")>>)),
                       Item("mcp_call", AbsentList),
                       Item("message", ListOf(<<Part(FALSE, <<>>), TextPart("Dos")>>))>>)),
     Response(NoneList),
     Response(ListOf(<<Item("message", ListOf(<<TextPart("Uno")>>)),
                       Item("message", NoneList)>>))}

\* One chat on the remote-catalog path against any one remote agent.
InitChatFoundry == InitWith(SingleCatalogs, {<<>>})

NextChatFoundry ==
    \/ StartChatFoundry(1, {"asst_1", "asst_404"}, ThreadIds)
    \/ ChatGetReturns(1)
    \/ ChatRespondReturns(1, SomeResponses)
    \/ ChatRespondFails(1, Errors)
    \/ ChatFoundryResume(1)
    \/ RemoteFailure(1, Errors)
    \/ Cancel(1)

SpecChatFoundry == InitChatFoundry /\ [][NextChatFoundry]_vars

\* The responses: at most MaxItems items of at most MaxParts parts each, the
\* texts telling their places apart.
PartTexts == <<"a", "b", "c", "d">>
ItemTexts == <<"1", "2", "3", "4">>

Contents ==
    {AbsentList, NoneList} \cup {ListOf(s) : s \in SeqsOf(BOOLEAN, 0, MaxParts)}

\* The item at place n with the content: its parts with a text carry the text
\* of their place.
PlacedItem(n, type, content) ==
    Item(type, [content EXCEPT !.items =
        [k \in 1..Len(content.items) |->
            IF content.items[k] THEN Part(TRUE, <<ItemTexts[n], PartTexts[k]>>)
            ELSE Part(FALSE, <<>>)]])

ItemShapes == [type : {"message", "mcp_call"}, content : Contents]

Responses ==
    {Response(AbsentList), Response(NoneList)} \cup
    {Response(ListOf([n \in 1..Len(s) |-> PlacedItem(n, s[n].type, s[n].content)])) :
        s \in SeqsOf(ItemShapes, 0, MaxItems)}

\* One chat on the remote-catalog path, whatever the response.
InitResponses == InitWith({PlainCatalog}, {<<>>})

NextResponses ==
    \/ StartChatFoundry(1, {"asst_1"}, {None})
    \/ ChatGetReturns(1)
    \/ ChatRespondReturns(1, Responses)
    \/ ChatRespondFails(1, {Error500})
    \/ ChatFoundryResume(1)
    \/ RemoteFailure(1, {ErrorReset})
    \/ Cancel(1)

SpecResponses == InitResponses /\ [][NextResponses]_vars

\* One chat on the locally-authored path, with a stream of chunks some of
\* which carry no text.
InitChatLocal == InitWith({<<>>}, {<<>>})

NextChatLocal ==
    \/ returned = <<>> /\ CreateOneAgentConfig
    \/ StartChatLocal(1, {"1a2b3c4d"}, ThreadIds)
    \/ ChatLocalChunk(1, {"Hola", " mundo", "", None})
    \/ ChatLocalEnd(1)
    \/ ChatLocalResume(1)
    \/ RemoteFailure(1, {ErrorReset})
    \/ Cancel(1)

SpecChatLocal == InitChatLocal /\ [][NextChatLocal]_vars

\* Chats of both paths, several at a time, with and without a thread
\* identifier, against a remote service that answers every call alike.
InitThreads == InitWith({WithIds(<<PlainCatalog[1]>>)}, {<<>>})

NextThreads ==
    \/ returned = <<>> /\ CreateOneAgentConfig
    \/ \E c \in Calls :
        \/ StartChatFoundry(c, {"asst_1"}, ThreadIds)
        \/ ChatGetReturns(c)
        \/ ChatRespondReturns(c, {HolaMundo})
        \/ ChatRespondFails(c, {Error500})
        \/ ChatFoundryResume(c)
        \/ StartChatLocal(c, {"1a2b3c4d"}, ThreadIds)
        \/ ChatLocalChunk(c, {"Hola"})
        \/ ChatLocalEnd(c)
        \/ ChatLocalResume(c)

SpecThreads == InitThreads /\ [][NextThreads]_vars

\* Every operation, several calls at a time, after at most one authoring
\* request.
InitSessions == InitWith({WithIds(<<PlainCatalog[1]>>)}, {<<ConnPagos>>})

NextSessions ==
    \/ returned = <<>> /\ CreateOneAgentConfig
    \/ \E c \in Calls :
        \/ StartListAgents(c)
        \/ ListAgentsNext(c)
        \/ StartListTools(c)
        \/ ListToolsNext(c)
        \/ StartCreate(c, {<<"F", "A", "Q">>}, <<<<"Eres un asistente">>>>, "gpt-4o",
                       {ListOf(<<"pagos-mcp">>)})
        \/ CreateConnectionsNext(c)
        \/ CreateReturns(c, {"dict"}, {"same"})
        \/ StartChatFoundry(c, {"asst_1"}, {None})
        \/ ChatGetReturns(c)
        \/ ChatRespondReturns(c, {HolaMundo})
        \/ ChatRespondFails(c, {Error500})
        \/ ChatFoundryResume(c)
        \/ StartChatLocal(c, {"1a2b3c4d"}, {None})
        \/ ChatLocalChunk(c, {"Hola"})
        \/ ChatLocalEnd(c)
        \/ ChatLocalResume(c)
        \/ RemoteFailure(c, {ErrorReset})
        \/ Cancel(c)

SpecSessions == InitSessions /\ [][NextSessions]_vars

----------------------------------------------------------------------------
(* The claims.                                                             *)

ChatOps == {"chat_foundry", "chat_local"}

Last(s) == s[Len(s)]

\* The agent a chat on the remote-catalog path addresses.
Target(c) == RemoteLookup(calls[c].agent_id)[1]

\* Does the agent's latest definition hold a tool of kind "mcp", as the
\* listing reports it?
ListsMcp(agent) ==
    LET tool_types == Summary(agent).tool_types
    IN \E k \in 1..Len(tool_types.items) : tool_types.items[k] = "mcp"

\* C1: every summary that list_foundry_agents or create_foundry_agent has
\* built has has_tools true iff tool_types is a non-empty list, and has_tools
\* false iff tool_types is None.
C1_HasToolsIffToolTypes ==
    \A c \in Calls :
        calls[c].op \in {"list_agents", "create"} =>
            \A k \in 1..Len(calls[c].result) :
                LET s == calls[c].result[k]
                IN /\ s.has_tools <=> Truthy(s.tool_types)
                   /\ ~s.has_tools <=> s.tool_types = NoneList

\* A listing has returned a tool-bearing and a tool-free agent.
C1_Witness ==
    \E c \in Calls :
        /\ calls[c].op = "list_agents"
        /\ calls[c].pc = "done"
        /\ \E j, k \in 1..Len(calls[c].result) :
            /\ calls[c].result[j].has_tools
            /\ ~calls[c].result[k].has_tools

\* createResponse has failed in this call, and the call has emitted for it.
RespondFailed(c) ==
    /\ calls[c].op = "chat_foundry"
    /\ calls[c].error # <<>>
    /\ calls[c].pc \in {"yield.error", "done", "cancelled"}

\* C2: when createResponse fails, the call emits exactly one fragment: the
\* known-limitation message if the error text contains "500" and the agent's
\* latest definition holds an "mcp" tool, else the raw error text.
C2_FailureFragment ==
    \A c \in Calls :
        RespondFailed(c) =>
            calls[c].out =
                << IF Contains(calls[c].error, "500") /\ ListsMcp(Target(c))
                   THEN KnownLimitation
                   ELSE <<RawErrorPrefix>> \o calls[c].error >>

\* C3: what the chat path finds out about "mcp" tools is what the listing
\* reports, whatever the shape of the definition and of its tools.
C3_McpWhateverShape ==
    \A c \in Calls :
        (calls[c].op = "chat_foundry"
            /\ calls[c].pc \in {"responses.create", "yield", "yield.error"}) =>
            (calls[c].has_mcp_tools <=> ListsMcp(Target(c)))

\* C4: no failure of the remote service leaves an operation as an exception.
C4_NoUncaughtFailure == \A c \in Calls : calls[c].pc # "raised"

IsErrorFragment(fragment) ==
    \/ fragment = KnownLimitation
    \/ fragment[1] = RawErrorPrefix
    \/ fragment[1] = "Error: Agente '"

\* C5: a chat call ends completed or failed; once a lookup or a remote call
\* has failed it ends with a message fragment as its last fragment; and it
\* issues the completion request at most once.
C5_FailedWithMessage ==
    \A c \in Calls :
        calls[c].op \in ChatOps =>
            /\ Len(calls[c].requests) <= 1
            /\ calls[c].pc \in Ended \ {"cancelled"} =>
                /\ calls[c].pc = "done"
                /\ calls[c].error # <<>> =>
                    /\ calls[c].out # <<>>
                    /\ IsErrorFragment(Last(calls[c].out))

\* The text parts of an item and of a response, in the remote's order.
ItemTextParts(item) ==
    IF item.content.kind = "list"
    THEN LET texts == SelectSeq(item.content.items, LAMBDA part : part.hasText)
         IN [k \in 1..Len(texts) |-> texts[k].text]
    ELSE <<>>

TextParts(response) ==
    IF response.output.kind = "list"
    THEN Concat([n \in 1..Len(response.output.items) |->
                    ItemTextParts(response.output.items[n])])
    ELSE <<>>

\* C6: when createResponse succeeds, the fragments of the completed call are
\* exactly the text parts of the response, in item order and part order.
C6_FragmentsAreTextParts ==
    \A c \in Calls :
        (calls[c].op = "chat_foundry" /\ calls[c].pc = "done"
            /\ calls[c].response # <<>>) =>
            calls[c].out = TextParts(calls[c].response[1])

\* The pcs at which a call holds a session.
HoldsSession(c) ==
    calls[c].pc \notin Ended \cup {"idle", "yield.notfound"}

RemoteTexts(c) ==
    IF calls[c].op = "chat_foundry"
    THEN IF calls[c].response = <<>> THEN {}
         ELSE {TextParts(calls[c].response[1])[k] :
                    k \in 1..Len(TextParts(calls[c].response[1]))}
    ELSE {<<calls[c].received[k]>> : k \in 1..Len(calls[c].received)}

\* A chat that the consumer closed between two fragments.
ClosedMidStream(c) ==
    /\ calls[c].op \in ChatOps
    /\ calls[c].cancelled_at = "yield"

C8_ClosedState ==
    \A c \in Calls :
        ClosedMidStream(c) =>
            /\ calls[c].pc = "cancelled"
            /\ \A s \in sessions : s.owner # c
            /\ \A k \in 1..Len(calls[c].out) : calls[c].out[k] \in RemoteTexts(c)

C8_ClosedStep ==
    \A c \in Calls :
        (calls[c].op \in ChatOps /\ calls'[c].cancelled_at = "yield") =>
            calls'[c].out = calls[c].out

\* C8: a chat closed between two fragments has ended, holds no session, emits
\* nothing from the close on, and has emitted text parts of the remote only:
\* no fragment stands for the cancellation.
C8_CloseMidStream == []C8_ClosedState /\ [][C8_ClosedStep]_vars

\* A chat on each path was closed after its first fragment.
C8_Witness ==
    \E c, d \in Calls :
        /\ calls[c].op = "chat_foundry" /\ ClosedMidStream(c)
        /\ calls[c].out = <<<<"Hola">>>>
        /\ calls[d].op = "chat_local" /\ ClosedMidStream(d)
        /\ Len(calls[d].out) = 1

\* C9: no two create_agent_config calls have returned the same id, and the
\* registry holds one entry for each.
C9_UniqueIds ==
    /\ \A j, k \in 1..Len(returned) : j # k => returned[j].id # returned[k].id
    /\ Cardinality(DOMAIN agents) = Len(returned)

\* C10: get_agent_config gives, for every config create_agent_config has
\* returned, that config with its fields unchanged.
C10_InsertOnly ==
    \A k \in 1..Len(returned) : get_agent_config(returned[k].id) = returned[k]

\* A creation whose name has been sanitized and whose locals are alive.
Sanitizing(c) ==
    /\ calls[c].op = "create"
    /\ calls[c].pc \in {"create.connections", "agents.create"}

HasNoHyphenRun(n) == \A i \in 1..(Len(n) - 1) : ~(n[i] = "-" /\ n[i + 1] = "-")

\* The naming grammar: alphanumerics and single hyphens, alphanumeric at both
\* ends, at most 63 characters.
WellFormedName(n) ==
    /\ n # <<>>
    /\ n[1] \in Alnum
    /\ n[Len(n)] \in Alnum
    /\ \A i \in 1..Len(n) : n[i] \in Alnum \cup {"-"}
    /\ HasNoHyphenRun(n)
    /\ Len(n) <= 63

\* C11: whatever the display name, the sanitized name is non-empty, starts and
\* ends with an alphanumeric, holds only [A-Za-z0-9-], has no two hyphens in a
\* row and at most 63 characters; so has every name a creation submits.
C11_SanitizedIsWellFormed ==
    \A c \in Calls :
        /\ Sanitizing(c) => WellFormedName(calls[c].sanitized_name)
        /\ calls[c].op = "create" =>
            \A k \in 1..Len(calls[c].submitted) :
                WellFormedName(calls[c].submitted[k].name)

\* A name longer than the limit was cut at a hyphen, which was then stripped.
C11_Witness ==
    \E c \in Calls :
        /\ Sanitizing(c)
        /\ Len(calls[c].name) > 63
        /\ Len(calls[c].sanitized_name) = 62
        /\ calls[c].submitted # <<>>

\* [A-Za-z0-9][A-Za-z0-9-]*[A-Za-z0-9], matched in full.
MatchesGrammar(n) ==
    /\ Len(n) >= 2
    /\ n[1] \in Alnum
    /\ n[Len(n)] \in Alnum
    /\ \A i \in 1..Len(n) : n[i] \in Alnum \cup {"-"}

\* C12, as stated: for a non-empty name the sanitized name matches the grammar
\* in full or is "agent", and has at most 63 characters.
C12_MatchesGrammar ==
    \A c \in Calls :
        (Sanitizing(c) /\ calls[c].name # <<>>) =>
            /\ \/ MatchesGrammar(calls[c].sanitized_name)
               \/ calls[c].sanitized_name = <<"a", "g", "e", "n", "t">>
            /\ Len(calls[c].sanitized_name) <= 63

\* C12, amended: for a non-empty name the sanitized name is one alphanumeric
\* character, or matches the grammar in full, or is "agent", and has at most
\* 63 characters.
C12_MatchesGrammarOrOneChar ==
    \A c \in Calls :
        (Sanitizing(c) /\ calls[c].name # <<>>) =>
            /\ \/ Len(calls[c].sanitized_name) = 1 /\ calls[c].sanitized_name[1] \in Alnum
               \/ MatchesGrammar(calls[c].sanitized_name)
               \/ calls[c].sanitized_name = <<"a", "g", "e", "n", "t">>
            /\ Len(calls[c].sanitized_name) <= 63

\* A name with one alphanumeric among invalid characters gives that character.
C12_Witness ==
    \E c \in Calls :
        /\ Sanitizing(c)
        /\ calls[c].name = <<"!", "7", "-">>
        /\ calls[c].sanitized_name = <<"7">>

\* C13: sanitizing a sanitized name gives it back.
C13_Idempotent ==
    \A c \in Calls :
        Sanitizing(c) =>
            sanitize_agent_name(calls[c].sanitized_name) = calls[c].sanitized_name

\* A name longer than the limit was cut to 63 characters.
C13_Witness ==
    \E c \in Calls :
        /\ Sanitizing(c)
        /\ Len(calls[c].name) > 63
        /\ Len(calls[c].sanitized_name) = 63
        /\ \E i \in 1..63 : calls[c].sanitized_name[i] = "-"

\* C14: a name without any alphanumeric character is sanitized to "agent".
C14_FallbackName ==
    \A c \in Calls :
        (Sanitizing(c) /\ \A i \in 1..Len(calls[c].name) : calls[c].name[i] \notin Alnum) =>
            calls[c].sanitized_name = <<"a", "g", "e", "n", "t">>

\* "!!!" was sanitized.
C14_Witness ==
    \E c \in Calls :
        /\ Sanitizing(c)
        /\ calls[c].name = <<"!", "!", "!">>
        /\ calls[c].sanitized_name = <<"a", "g", "e", "n", "t">>

\* The tools of the agent's latest definition, as the remote holds them.
DefinedTools(agent) ==
    IF /\ agent.versions.kind = "obj"
       /\ agent.versions.latest.kind = "obj"
       /\ agent.versions.latest.definition.kind \in {"dict", "obj"}
    THEN agent.versions.latest.definition.tools
    ELSE AbsentList

\* The agent with its latest definition in the given shape and its tools in
\* the given shapes; an agent without a definition is left as it is.
Shaped(agent, kind, shapes) ==
    IF agent.versions.latest.definition.kind \in {"dict", "obj"}
    THEN [agent EXCEPT
            !.versions.latest.definition.kind = kind,
            !.versions.latest.definition.tools.items =
                [i \in DOMAIN @ |-> [@[i] EXCEPT !.shape = shapes[i]]]]
    ELSE agent

\* C15: the summary a listing gives for an agent is the one it gives for the
\* same agent in any other shape of the definition and of the tools; with one
\* "mcp" tool it has has_tools true and tool_types ["mcp"], without tools
\* has_tools false and tool_types None.
C15_SameSummaryInBothShapes ==
    \A c \in Calls :
        calls[c].op = "list_agents" =>
            \A k \in 1..Len(calls[c].result) :
                LET agent == remote[k]
                    summary == calls[c].result[k]
                    tools == DefinedTools(agent)
                IN /\ \A kind \in {"dict", "obj"} :
                        \A shapes \in [DOMAIN tools.items -> {"dict", "obj"}] :
                            Summary(Shaped(agent, kind, shapes)) = summary
                   /\ (Len(tools.items) = 1 /\ tools.items[1].type = "mcp") =>
                        /\ summary.has_tools
                        /\ summary.tool_types = ListOf(<<"mcp">>)
                   /\ tools.items = <<>> =>
                        /\ ~summary.has_tools
                        /\ summary.tool_types = NoneList

\* A listing has returned an agent whose definition and mcp tool are objects,
\* and a tool-free agent.
C15_Witness ==
    \E c \in Calls :
        /\ calls[c].op = "list_agents"
        /\ calls[c].pc = "done"
        /\ \E j, k \in 1..Len(calls[c].result) :
            /\ remote[j].versions.latest.definition =
                    Definition("obj", "gpt-4o", ListOf(<<McpTool("obj")>>))
            /\ calls[c].result[j].tool_types = ListOf(<<"mcp">>)
            /\ calls[c].result[j].model = "gpt-4o"
            /\ DefinedTools(remote[k]).items = <<>>
            /\ calls[c].result[k].tool_types = NoneList

\* A creation that has built its request.
Submitted(c) == calls[c].op = "create" /\ calls[c].submitted # <<>>

\* The descriptors of the request a creation has built.
Descriptors(c) == calls[c].submitted[1].definition.tools.items

\* The requested names that name a connection of the inventory, in request
\* order, one per occurrence.
KnownNames(c) ==
    SelectSeq(calls[c].tool_names.items,
              LAMBDA n : \E k \in 1..Len(connections) : connections[k].name = n)

\* C16: the descriptors a creation attaches are those of the requested names
\* that the inventory holds, in request order, one per occurrence; the other
\* names are skipped and the request is built all the same.
C16_ResolvesKnownNames ==
    \A c \in Calls :
        /\ Submitted(c) =>
            [k \in 1..Len(Descriptors(c)) |-> Descriptors(c)[k].server_label] = KnownNames(c)
        /\ (calls[c].op = "create" /\ calls[c].pc = "raised") =>
            calls[c].error \in Errors

\* ["pagos-mcp", "unknown"] against an inventory holding only "pagos-mcp" has
\* created the agent with one descriptor.
C16_Witness ==
    \E c \in Calls :
        /\ Submitted(c)
        /\ calls[c].pc = "done"
        /\ connections = <<ConnPagos>>
        /\ calls[c].tool_names = ListOf(<<"pagos-mcp", "unknown">>)
        /\ Len(Descriptors(c)) = 1
        /\ Descriptors(c)[1].server_label = "pagos-mcp"

\* C17: every descriptor submitted has the requested name as label, the id
\* and the target URL (empty when there is none) of one connection of that
\* name, no allowed-tools restriction and the approval policy "never".
C17_DescriptorOfConnection ==
    \A c \in Calls :
        Submitted(c) =>
            \A k \in 1..Len(Descriptors(c)) :
                LET d == Descriptors(c)[k]
                IN /\ d.server_label \in {calls[c].tool_names.items[j] :
                                            j \in 1..Len(calls[c].tool_names.items)}
                   /\ \E j \in 1..Len(connections) :
                        /\ connections[j].name = d.server_label
                        /\ connections[j].id = d.project_connection_id
                        /\ d.server_url = IF connections[j].target \in {None, Absent, ""}
                                          THEN "" ELSE connections[j].target
                   /\ d.allowed_tools = <<>>
                   /\ d.require_approval = "never"

\* A name that two connections bear was resolved to the second of them.
C17_Witness ==
    \E c \in Calls :
        /\ Submitted(c)
        /\ connections = <<ConnPagos, ConnPagosBis>>
        /\ Len(Descriptors(c)) = 1
        /\ Descriptors(c)[1].project_connection_id = "conn_2"
        /\ Descriptors(c)[1].server_url = "https://pagos2.example/mcp"
        /\ Descriptors(c)[1].require_approval = "never"

\* A local chat that found no config: it never got a session.
NotFoundChat(c) == calls[c].op = "chat_local" /\ calls[c].sid = 0

C18_NotFoundState ==
    \A c \in Calls :
        NotFoundChat(c) =>
            /\ calls[c].pc \in {"yield.notfound", "done", "cancelled"}
            /\ calls[c].out =
                <<<<"Error: Agente '", calls[c].agent_id, "' no encontrado.">>>>
            /\ calls[c].received = <<>>
            /\ \A s \in sessions : s.owner # c

C18_NotFoundStep ==
    \A c \in Calls :
        (calls[c].pc = "idle" /\ calls'[c].op = "chat_local"
            /\ calls'[c].agent_id \notin DOMAIN agents) =>
            /\ NotFoundChat(c)'
            /\ sessions' = sessions
            /\ nextSid' = nextSid

\* C18: a local chat for an id the registry does not hold emits the not-found
\* message as its only fragment and ends, raises nothing and opens no session.
C18_NotFoundOneFragment == []C18_NotFoundState /\ [][C18_NotFoundStep]_vars

\* A local chat for an unknown id has ended after its one fragment, while the
\* registry was still empty.
C18_Witness ==
    \E c \in Calls :
        /\ NotFoundChat(c)
        /\ calls[c].pc = "done"
        /\ Len(calls[c].out) = 1
        /\ calls[c].agent_id \notin DOMAIN agents

\* C19: every completion request of the remote-catalog chat is an agent
\* reference with the fetched agent's name and version ("1" when the agent
\* shows none) and carries no model.
C19_AgentReferenceOnly ==
    \A c \in Calls :
        calls[c].op = "chat_foundry" =>
            \A k \in 1..Len(calls[c].requests) :
                LET request == calls[c].requests[k]
                    agent == Target(c)
                    version == agent.versions.latest.version
                IN /\ request.agent_type = "agent_reference"
                   /\ request.agent_name = agent.name
                   /\ request.agent_version =
                        IF version = Absent THEN "1"
                        ELSE IF version = None THEN "None" ELSE version
                   /\ request.model = Absent

\* A request for an agent at version "3" was issued.
C19_Witness ==
    \E c \in Calls :
        /\ calls[c].op = "chat_foundry"
        /\ Len(calls[c].requests) = 1
        /\ calls[c].requests[1].agent_version = "3"
        /\ calls[c].requests[1].agent_name = NameFaqBot
        /\ calls[c].pc = "done"

\* C20: the definition submitted has no tool list (None) exactly when no
\* requested name was resolved, else a non-empty list; never an empty one.
C20_ToolsNoneOrNonEmpty ==
    \A c \in Calls :
        Submitted(c) =>
            LET tools == calls[c].submitted[1].definition.tools
            IN /\ tools = NoneList <=> KnownNames(c) = <<>>
               /\ KnownNames(c) # <<>> => (tools.kind = "list" /\ tools.items # <<>>)
               /\ tools # ListOf(<<>>)

\* Names were requested, none is known, and the agent was created without a
\* tool list.
C20_Witness ==
    \E c \in Calls :
        /\ Submitted(c)
        /\ calls[c].pc = "done"
        /\ calls[c].tool_names = ListOf(<<"unknown", "unknown">>)
        /\ connections # <<>>
        /\ calls[c].submitted[1].definition.tools = NoneList

\* C21: a creation submits the sanitized name as the agent's name and returns
\* the id and the name the remote gave the agent (the sanitized name when the
\* remote answered without one), with empty description and created_at.
C21_CreatedSummary ==
    \A c \in Calls :
        /\ Submitted(c) =>
            calls[c].submitted[1].name = sanitize_agent_name(calls[c].name)
        /\ (calls[c].op = "create" /\ calls[c].pc = "done") =>
            LET summary == calls[c].result[1]
            IN /\ Len(calls[c].result) = 1
               /\ \E k \in 1..Len(remote) :
                    /\ remote[k].id = summary.id
                    /\ remote[k].name = summary.name
               /\ summary.name # NoName
               /\ summary.description = ""
               /\ summary.created_at = ""

\* "FAQ Bot!!" was created by a remote that echoes the name: the summary is
\* named "FAQ-Bot".
C21_Witness ==
    \E c \in Calls :
        /\ calls[c].op = "create"
        /\ calls[c].pc = "done"
        /\ calls[c].name = <<"F", "A", "Q", " ", "B", "o", "t", "!", "!">>
        /\ calls[c].submitted[1].name = <<"F", "A", "Q", "-", "B", "o", "t">>
        /\ calls[c].result[1].name = <<"F", "A", "Q", "-", "B", "o", "t">>
        /\ calls[c].result[1].id = "asst_1"

\* The summaries of the remote agents, one each, in the remote's order.
Summaries(catalog) == [k \in 1..Len(catalog) |-> Summary(catalog[k])]

\* A listing adds to its result only the summary of the next agent of the
\* remote state as it is now, and returns when it has one for each agent.
C22_ListingStep ==
    \A c \in Calls :
        calls'[c].op = "list_agents" =>
            /\ calls'[c].result # calls[c].result =>
                /\ Len(calls[c].result) < Len(remote)
                /\ calls'[c].result =
                    Append(calls[c].result, Summary(remote[Len(calls[c].result) + 1]))
            /\ (calls[c].pc # "done" /\ calls'[c].pc = "done") =>
                Len(calls'[c].result) = Len(remote)

\* C22: a listing returns one summary per remote agent in the remote's order,
\* each read from the remote state at the time of the call: never from the
\* result of an earlier call.
C22_ListingRequeries == [][C22_ListingStep]_vars

\* Two listings have returned, the later one with an agent and a version the
\* earlier one had not seen.
C22_Witness ==
    \E c, d \in Calls :
        /\ calls[c].op = "list_agents" /\ calls[c].pc = "done"
        /\ calls[d].op = "list_agents" /\ calls[d].pc = "done"
        /\ Len(calls[c].result) = 1
        /\ calls[d].result = Summaries(remote)
        /\ Len(calls[d].result) = 2
        /\ calls[d].result[1] # calls[c].result[1]

\* Is the connection of the kind that bears the marker "REMOTE_TOOL"?
IsRemoteTool(conn) == \E i \in 1..Len(conn.type) : conn.type[i] = "REMOTE_TOOL"

\* C23: a listing of the tools returns the connections whose type holds
\* "REMOTE_TOOL", each with its id, name and target and the kind "mcp", in
\* the remote's order, two of the same name as two entries.
C23_ListsRemoteTools ==
    \A c \in Calls :
        (calls[c].op = "list_tools" /\ calls[c].pc = "done") =>
            LET kept == SelectSeq(connections, IsRemoteTool)
            IN /\ Len(calls[c].result) = Len(kept)
               /\ \A k \in 1..Len(kept) :
                    /\ calls[c].result[k].id = kept[k].id
                    /\ calls[c].result[k].name = kept[k].name
                    /\ calls[c].result[k].target =
                            IF kept[k].target \in {None, Absent, ""} THEN ""
                            ELSE kept[k].target
                    /\ calls[c].result[k].tool_type = "mcp"

\* Two connections of one name were listed as two tools.
C23_Witness ==
    \E c \in Calls :
        /\ calls[c].op = "list_tools"
        /\ calls[c].pc = "done"
        /\ Len(calls[c].result) = 2
        /\ calls[c].result[1].name = calls[c].result[2].name
        /\ calls[c].result[1].id # calls[c].result[2].id

\* A local chat for a known id whose remote stream has ended.
StreamEnded(c) ==
    /\ calls[c].op = "chat_local"
    /\ calls[c].sid # 0
    /\ calls[c].pc = "done"

\* C24, as stated: when the remote stream has ended, the fragments emitted are
\* the chunks the remote sent, one for one and in order.
C24_EmitsEveryChunk ==
    \A c \in Calls :
        StreamEnded(c) =>
            calls[c].out = [k \in 1..Len(calls[c].received) |-> <<calls[c].received[k]>>]

\* C24, amended: when the remote stream has ended, the fragments emitted are
\* the chunks the remote sent that carry text, one for one and in order; a
\* chunk whose text is empty or None is skipped.
C24_EmitsEveryTextChunk ==
    \A c \in Calls :
        StreamEnded(c) =>
            LET texts == SelectSeq(calls[c].received, LAMBDA t : t \notin {"", None})
            IN calls[c].out = [k \in 1..Len(texts) |-> <<texts[k]>>]

\* A stream of a text, a chunk without text and another text has ended.
C24_Witness ==
    \E c \in Calls :
        /\ StreamEnded(c)
        /\ calls[c].received = <<"Hola", "", " mundo">>
        /\ calls[c].out = << <<"Hola">>, <<" mundo">> >>

\* The lines at positions h[1] < ... < h[5] of a document are the five
\* section headers, and the line under the first is the purpose.
LaidOut(doc, purpose, h) ==
    /\ \A i \in 1..4 : h[i] < h[i + 1]
    /\ doc[h[1]] = <<"PROPOSITO PRINCIPAL:">>
    /\ doc[h[2]] = <<"PERSONALIDAD:">>
    /\ doc[h[3]] = <<"CAPACIDADES:">>
    /\ doc[h[4]] = <<"REGLAS DE COMPORTAMIENTO:">>
    /\ doc[h[5]] = <<"FORMATO DE RESPUESTA:">>
    /\ h[1] < Len(doc)
    /\ doc[h[1] + 1] = <<purpose>>
    /\ SubSeq(doc, h[5] + 1, Len(doc)) =
           << <<"- Responde de manera clara y estructurada">>,
              <<"- Usa vinetas o numeracion cuando sea apropiado">>,
              <<"- Incluye ejemplos cuando ayuden a clarificar">> >>

\* The positions of a document that hold a section header.
HeaderLines(doc) ==
    {i \in 1..Len(doc) :
        doc[i] \in {<<"PROPOSITO PRINCIPAL:">>, <<"PERSONALIDAD:">>, <<"CAPACIDADES:">>,
                    <<"REGLAS DE COMPORTAMIENTO:">>, <<"FORMATO DE RESPUESTA:">>}}

\* C25: the instructions of every authored config hold the headers purpose,
\* personality, capabilities and rules in that order, then the fixed
\* response-format section, and echo the purpose of the request under the
\* purpose header, whatever the purpose, personality, capabilities and rules.
C25_ComposedInOrder ==
    \A k \in 1..Len(returned) :
        \E input \in ConfigInputs :
            /\ input.name = returned[k].name
            /\ \E h \in [1..5 -> HeaderLines(returned[k].instructions)] :
                 LaidOut(returned[k].instructions, input.purpose, h)

\* Configs were authored from a request without capabilities and rules, and
\* from one whose purpose and rules read like section headers.
C25_Witness ==
    /\ \E k \in 1..Len(returned) : returned[k].name = "FAQ Bot"
    /\ \E k \in 1..Len(returned) :
         /\ returned[k].name = "Eco"
         /\ returned[k].instructions[4] = <<"REGLAS DE COMPORTAMIENTO:">>

\* C26: once createResponse has returned a response, the call emits no error
\* fragment, whatever the shape of the response's output items.
C26_NoErrorAfterResponse ==
    \A c \in Calls :
        (calls[c].op = "chat_foundry" /\ calls[c].response # <<>>) =>
            \A k \in 1..Len(calls[c].out) : ~IsErrorFragment(calls[c].out[k])

\* Every entry of the registry is a config as create_agent_config returned it,
\* and a local chat in progress that found its config works with that
\* config's instructions.
C28_CompleteConfigs ==
    /\ \A id \in DOMAIN agents :
         \E k \in 1..Len(returned) : agents[id] = returned[k] /\ returned[k].id = id
    /\ \A c \in Calls :
         (calls[c].op = "chat_local" /\ calls[c].sid # 0 /\ calls[c].pc \notin Ended) =>
             /\ calls[c].agent_id \in DOMAIN agents
             /\ calls[c].instructions = agents[calls[c].agent_id].instructions

\* A step of an operation on the remote service leaves the registry alone,
\* and the step that writes the registry moves no such operation.
C28_RemoteStep ==
    (calls' # calls \/ sessions' # sessions) =>
        (agents' = agents /\ returned' = returned)

\* C28: the operations on the remote service never change the registry,
\* whether they succeed, fail or are cancelled; create_agent_config writes it
\* in one step, so that a lookup finds no entry or a complete config.
C28_RegistryFrame == []C28_CompleteConfigs /\ [][C28_RemoteStep]_vars

\* With a config in the registry, a creation was cancelled and a chat on the
\* remote-catalog path failed, and the registry holds that one config.
C28_Witness ==
    /\ DOMAIN agents = {"1a2b3c4d"}
    /\ \E c, d \in Calls :
        /\ calls[c].op = "create" /\ calls[c].pc = "cancelled"
        /\ calls[d].op = "chat_foundry" /\ calls[d].pc = "done"
        /\ calls[d].error # <<>>

\* Two chats on the same path with the same agent id.
SameChat(c, d) ==
    /\ c # d
    /\ calls[c].op \in ChatOps
    /\ calls[c].op = calls[d].op
    /\ calls[c].agent_id = calls[d].agent_id

\* C29: two chats on the same path with the same agent id, whatever their
\* thread identifiers, send the same completion request, pass to the local
\* stream a new thread each, and emit the same fragments once they have ended
\* on the same answers of the remote service.
C29_ThreadIdIgnored ==
    \A c, d \in Calls :
        SameChat(c, d) =>
            /\ (calls[c].requests # <<>> /\ calls[d].requests # <<>>) =>
                   calls[c].requests = calls[d].requests
            /\ (calls[c].op = "chat_local" /\ calls[c].sid # 0) =>
                   calls[c].thread = "<new thread>"
            /\ (calls[c].pc = "done" /\ calls[d].pc = "done"
                    /\ calls[c].response = calls[d].response
                    /\ calls[c].received = calls[d].received
                    /\ calls[c].error = calls[d].error
                    /\ (calls[c].sid = 0 <=> calls[d].sid = 0)) =>
                   calls[c].out = calls[d].out

\* A local chat without a thread identifier and one with a thread identifier
\* have both streamed a fragment and ended.
C29_Witness ==
    \E c, d \in Calls :
        /\ SameChat(c, d)
        /\ calls[c].op = "chat_local"
        /\ calls[c].thread_id = None /\ calls[d].thread_id = "thread_1"
        /\ calls[c].pc = "done" /\ calls[d].pc = "done"
        /\ calls[c].out = <<<<"Hola">>>> /\ calls[d].out = <<<<"Hola">>>>

\* C30: in every summary a listing has built, a description, creation
\* timestamp or model for which the remote agent's latest version carries no
\* value is the empty string.
C30_MissingIsEmpty ==
    \A c \in Calls :
        calls[c].op = "list_agents" =>
            \A k \in 1..Len(calls[c].result) :
                LET latest == LatestOf(remote[k])
                    summary == calls[c].result[k]
                IN /\ (latest.kind # "obj" \/ latest.description \in {Absent, None}) =>
                        summary.description = ""
                   /\ (latest.kind # "obj" \/ latest.created_at \in {Absent, None}) =>
                        summary.created_at = ""
                   /\ (latest.kind # "obj" \/ ~TruthyDefinition(latest.definition)
                            \/ latest.definition.model \in {Absent, None}) =>
                        summary.model = ""

\* C27: every descriptor a creation submits refers to a connection whose type
\* holds "REMOTE_TOOL".
C27_OnlyRemoteTools ==
    \A c \in Calls :
        Submitted(c) =>
            \A k \in 1..Len(Descriptors(c)) :
                \E j \in 1..Len(connections) :
                    /\ connections[j].id = Descriptors(c)[k].project_connection_id
                    /\ IsRemoteTool(connections[j])

====
